---- MODULE Spec2Model ----
(***************************************************************************)
(* Route reconciliation (pkg/datapath/route/route.go) against a kernel     *)
(* routing table reached through the netlink adapter.                      *)
(*                                                                         *)
(* Spec        : ReplaceRoute / DeleteRoute calls, each run to completion, *)
(*               interleaved with other actors adding and deleting routes. *)
(* SpecLookup  : the equivalence check lookup() applied to drawn inputs.   *)
(* SpecRace    : two ReplaceRoute calls of one specification, interleaved  *)
(*               at the adapter calls.                                     *)
(* SpecSort    : a slice of routes ordered through ByMask.                 *)
(* SpecMap     : a ComparableMap (pkg/versioned/map.go) and its methods.   *)
(* SpecAddEqual: a ComparableMap on which only AddEqual is called.         *)
(* SpecSync    : SyncComparableMap called from concurrent goroutines.      *)
(***************************************************************************)
EXTENDS Integers, Sequences, FiniteSets, TLC

VARIABLES
    table,   \* the kernel routing table: a set of netlink.Route values
    last,    \* the most recent operation: its input, adapter calls and return
    lk,      \* SpecLookup: one application of lookup() (inputs and outcome)
    race,    \* SpecRace: the specification, the call log, the goroutines
    srt,     \* SpecSort: the slice before and after sorting
    vm,      \* SpecMap: the ComparableMap and the last call on it
    gs       \* SpecSync: the heap of maps, the SyncComparableMap, the goroutines

vars == <<table, last, lk, race, srt, vm, gs>>

(***************************************************************************)
(* Bounds                                                                  *)
(***************************************************************************)
MaxRoutes == 2      \* the table holds at most this many routes
MaxLen == 2         \* SpecLookup: longest listing handed to lookup()
MaxSortLen == 4     \* SpecSort: longest slice of routes that is sorted
MaxVersion == 2     \* SpecMap: highest Version of an Object

(***************************************************************************)
(* Program constants                                                       *)
(***************************************************************************)
FAMILY_V4 == 2
FAMILY_V6 == 10
SCOPE_LINK == 253
V4Bits == 32
V6Bits == 128
DeviceMTU == 1500
RouteMTU == 1450
IterateVersion == 123

(***************************************************************************)
(* net.IP.  form is the byte representation: "nil" (length 0), "v4"        *)
(* (4 bytes), "v4in6" (16 bytes, ::ffff:a.b.c.d) or "v6" (16 bytes).       *)
(* a.net / a.host identify the address; a prefix of network length covers  *)
(* one net, a host prefix one address.                                     *)
(***************************************************************************)
NilIP == [form |-> "nil", net |-> 0, host |-> 0]

IP4(n, h) == [form |-> "v4", net |-> n, host |-> h]
IP4in6(n, h) == [form |-> "v4in6", net |-> n, host |-> h]
IP6(n, h) == [form |-> "v6", net |-> n, host |-> h]

\* ip.To4(): the 4-byte form of an IPv4 address, nil otherwise
To4(ip) == IF ip.form \in {"v4", "v4in6"} THEN [ip EXCEPT !.form = "v4"] ELSE NilIP

IPLen(ip) == CASE ip.form = "nil" -> 0
               [] ip.form = "v4" -> 4
               [] OTHER -> 16

\* ip.Equal(x): same bytes, or an IPv4 address and its 16-byte form
IPEqual(ip, x) ==
    IF IPLen(ip) = IPLen(x) THEN ip = x
    ELSE IF IPLen(ip) = 4 /\ IPLen(x) = 16 THEN x.form = "v4in6" /\ To4(x) = ip
    ELSE IF IPLen(ip) = 16 /\ IPLen(x) = 4 THEN ip.form = "v4in6" /\ To4(ip) = x
    ELSE FALSE

(***************************************************************************)
(* *net.IPNet.  nil = TRUE is the nil pointer.  ones/bits is Mask.Size().  *)
(***************************************************************************)
NilNet == [nil |-> TRUE, IP |-> NilIP, ones |-> 0, bits |-> 0]

IPNet(ip, ones, bits) == [nil |-> FALSE, IP |-> ip, ones |-> ones, bits |-> bits]

\* n.Contains(ip): ip, in 4-byte form when it has one, masked equals the network
Contains(n, ip) ==
    LET x == IF To4(ip) # NilIP THEN To4(ip) ELSE ip
        nn == IF To4(n.IP) # NilIP THEN To4(n.IP) ELSE n.IP
    IN  /\ IPLen(x) = IPLen(nn)
        /\ IPLen(x) # 0
        /\ IF n.ones = n.bits THEN x.net = nn.net /\ x.host = nn.host
           ELSE IF n.ones = 0 THEN TRUE
           ELSE x.net = nn.net

\* ipFamily (route.go:112)
ipFamily(ip) == IF To4(ip) = NilIP THEN FAMILY_V6 ELSE FAMILY_V4

(***************************************************************************)
(* netlink.Route                                                           *)
(***************************************************************************)
NLRoute(dst, src, gw, link, scope, mtu) ==
    [Dst |-> dst, Src |-> src, Gw |-> gw, LinkIndex |-> link, Scope |-> scope, MTU |-> mtu]

NoRoute == NLRoute(NilNet, NilIP, NilIP, 0, 0, 0)

(***************************************************************************)
(* route.Route (route.go:28).  Nexthop = NilIP is the nil *net.IP.         *)
(***************************************************************************)
Route(prefix, nexthop, local, device, mtu, scope) ==
    [Prefix |-> prefix, Nexthop |-> nexthop, Local |-> local,
     Device |-> device, MTU |-> mtu, Scope |-> scope]

NoSpec == Route(NilNet, NilIP, NilIP, "", 0, 0)

\* getNetlinkRoute (route.go:47)
getNetlinkRoute(r) ==
    NLRoute(r.Prefix, r.Local, IF r.Nexthop # NilIP THEN r.Nexthop ELSE NilIP,
            0, IF r.Scope # 0 THEN r.Scope ELSE 0, r.MTU)

\* getNexthopAsIPNet (route.go:66)
getNexthopAsIPNet(r) ==
    IF r.Nexthop = NilIP THEN NilNet
    ELSE IF To4(r.Nexthop) # NilIP THEN IPNet(r.Nexthop, V4Bits, V4Bits)
    ELSE IPNet(r.Nexthop, V6Bits, V6Bits)

(***************************************************************************)
(* The netlink adapter over the table.  A stored route holds addresses in  *)
(* the kernel's form (4 bytes for IPv4).                                   *)
(***************************************************************************)
LinkIndexOf == [eth0 |-> 1, eth1 |-> 2]

\* netlink.LinkByName: the link's index, or an error for an unknown name
LinkByName(name) ==
    IF name \in DOMAIN LinkIndexOf
    THEN [ok |-> TRUE, Index |-> LinkIndexOf[name]]
    ELSE [ok |-> FALSE, Index |-> 0]

KernelIP(ip) == IF To4(ip) # NilIP THEN To4(ip) ELSE ip

KernelNet(n) == IF n.nil THEN NilNet ELSE [n EXCEPT !.IP = KernelIP(n.IP)]

KernelRoute(r) ==
    [r EXCEPT !.Dst = KernelNet(r.Dst), !.Src = KernelIP(r.Src), !.Gw = KernelIP(r.Gw)]

RouteFamily(r) == IF r.Dst.nil THEN ipFamily(r.Gw) ELSE ipFamily(r.Dst.IP)

\* the key under which the table holds one route: destination, device,
\* gateway and scope
RouteKey(r) == <<KernelNet(r.Dst), r.LinkIndex, KernelIP(r.Gw), r.Scope>>

RECURSIVE SetToSeq(_)
SetToSeq(S) ==
    IF S = {} THEN <<>>
    ELSE LET x == CHOOSE y \in S : TRUE IN <<x>> \o SetToSeq(S \ {x})

\* netlink.RouteList(link, family): the routes of the device and family
RouteList(tbl, link, family) ==
    SetToSeq({r \in tbl : r.LinkIndex = link /\ RouteFamily(r) = family})

\* netlink.RouteReplace: overwrite the route of the same key, add otherwise
RouteReplace(tbl, r) ==
    {t \in tbl : RouteKey(t) # RouteKey(r)} \cup {KernelRoute(r)}

\* what a netlink.RouteDel request selects: destination and device, and the
\* scope when the request carries one
DelMatches(tbl, r) ==
    {t \in tbl : /\ t.Dst = KernelNet(r.Dst)
                 /\ t.LinkIndex = r.LinkIndex
                 /\ (r.Scope # 0 => t.Scope = r.Scope)}

\* one adapter call as seen at the adapter boundary
Call(op, phase, link, family, route, ok) ==
    [op |-> op, phase |-> phase, link |-> link, family |-> family,
     route |-> route, ok |-> ok]

(***************************************************************************)
(* lookup (route.go:126), over the listing RouteList returned (routes) or  *)
(* its failure (err).                                                      *)
(***************************************************************************)
Found(r) == [out |-> "found", r |-> r]
NotFound == [out |-> "nil", r |-> NoRoute]
Panic == [out |-> "panic", r |-> NoRoute]

\* a match condition that also compares the MTU and the source address
lookupMatchWithMTU(r, route) ==
    /\ r.LinkIndex = route.LinkIndex /\ r.Scope = route.Scope
    /\ r.Dst.ones = route.Dst.ones /\ r.Dst.bits = route.Dst.bits
    /\ IPEqual(r.Dst.IP, route.Dst.IP) /\ IPEqual(r.Gw, route.Gw)
    /\ r.MTU = route.MTU
    /\ (r.Src = NilIP /\ route.Src = NilIP) \/ IPEqual(r.Src, route.Src)

\* a match condition that leaves the scope out
lookupMatchNoScope(r, route) ==
    /\ r.LinkIndex = route.LinkIndex
    /\ r.Dst.ones = route.Dst.ones /\ r.Dst.bits = route.Dst.bits
    /\ IPEqual(r.Dst.IP, route.Dst.IP) /\ IPEqual(r.Gw, route.Gw)

\* route.go:143-145
lookupMatch(r, route) ==
    /\ r.LinkIndex = route.LinkIndex /\ r.Scope = route.Scope
    /\ r.Dst.ones = route.Dst.ones /\ r.Dst.bits = route.Dst.bits
    /\ IPEqual(r.Dst.IP, route.Dst.IP) /\ IPEqual(r.Gw, route.Gw)

\* route.go:132-148
RECURSIVE lookupLoop(_, _, _)
lookupLoop(routes, i, route) ==
    IF i > Len(routes) THEN NotFound
    ELSE LET r == routes[i] IN
         IF ~r.Dst.nil /\ route.Dst.nil THEN lookupLoop(routes, i + 1, route)
         ELSE IF ~route.Dst.nil /\ r.Dst.nil THEN lookupLoop(routes, i + 1, route)
         ELSE IF r.Dst.nil \/ route.Dst.nil THEN Panic
         ELSE IF lookupMatch(r, route) THEN Found(r)
         ELSE lookupLoop(routes, i + 1, route)

lookup(routes, err, route) ==
    IF route.Dst.nil THEN Panic
    ELSE IF err THEN NotFound
    ELSE lookupLoop(routes, 1, route)

(***************************************************************************)
(* The result of running a function of route.go: the table it leaves, the  *)
(* adapter calls it made in order, and what it returned.  status "panic"   *)
(* is a nil pointer dereference ending the call.                           *)
(***************************************************************************)
Result(tbl, calls, status, changed, err) ==
    [table |-> tbl, calls |-> calls, status |-> status, changed |-> changed, err |-> err]

\* the adapter sites of one call at which the adapter can be made to fail
Sites == {"nexthop.list", "nexthop.replace", "main.list", "main.replace", "delete"}

\* an on-link route of scope link for both families
createNexthopRouteScoped(link, routerNet) ==
    IF routerNet.nil THEN [panic |-> TRUE, rt |-> NoRoute]
    ELSE [panic |-> FALSE, rt |-> NLRoute(routerNet, NilIP, NilIP, link, SCOPE_LINK, 0)]

\* createNexthopRoute (route.go:153): routerNet.IP on a nil routerNet panics
createNexthopRoute(link, routerNet) ==
    IF routerNet.nil THEN [panic |-> TRUE, rt |-> NoRoute]
    ELSE [panic |-> FALSE,
          rt |-> NLRoute(routerNet, NilIP, NilIP, link,
                         IF To4(routerNet.IP) # NilIP THEN SCOPE_LINK ELSE 0, 0)]

\* replaceNexthopRoute (route.go:174); F is the set of failing adapter sites
replaceNexthopRoute(tbl, link, routerNet, F) ==
    LET c == createNexthopRoute(link, routerNet) IN
    IF c.panic THEN Result(tbl, <<>>, "panic", FALSE, <<>>)
    ELSE
    LET route == c.rt
        fam == ipFamily(route.Dst.IP)
        listErr == "nexthop.list" \in F
        cl == Call("RouteList", "nexthop", link, fam, NoRoute, ~listErr)
        cr == Call("RouteReplace", "nexthop", link, fam, route, ~("nexthop.replace" \in F))
    IN  IF lookup(RouteList(tbl, link, fam), listErr, route).out = "nil"
        THEN IF "nexthop.replace" \in F
             THEN Result(tbl, <<cl, cr>>, "error", FALSE,
                         <<"unable to add L2 nexthop route", "RouteReplace">>)
             ELSE Result(RouteReplace(tbl, route), <<cl, cr>>, "ok", TRUE, <<>>)
        ELSE Result(tbl, <<cl>>, "ok", FALSE, <<>>)

\* an install request that keeps the MTU of the specification
mainRouteSpecKeepMTU(route, link) ==
    [getNetlinkRoute(route) EXCEPT !.LinkIndex = link]

\* route.go:212-224: the install request of the main route
mainRouteSpec(route, link) ==
    LET rs == [getNetlinkRoute(route) EXCEPT !.LinkIndex = link] IN
    IF rs.MTU # 0
    THEN IF Contains(route.Prefix, route.Local)
         THEN [rs EXCEPT !.MTU = DeviceMTU]
         ELSE [rs EXCEPT !.MTU = RouteMTU]
    ELSE rs

\* a main phase that reports the install without making it
replaceMainNoInstall(tbl, link, routeSpec, F) ==
    LET fam == ipFamily(routeSpec.Dst.IP)
        listErr == "main.list" \in F
        cl == Call("RouteList", "main", link, fam, NoRoute, ~listErr)
    IN  IF lookup(RouteList(tbl, link, fam), listErr, routeSpec).out = "nil"
        THEN Result(tbl, <<cl>>, "ok", TRUE, <<>>)
        ELSE Result(tbl, <<cl>>, "ok", FALSE, <<>>)

\* route.go:226-234
replaceMain(tbl, link, routeSpec, F) ==
    LET fam == ipFamily(routeSpec.Dst.IP)
        listErr == "main.list" \in F
        cl == Call("RouteList", "main", link, fam, NoRoute, ~listErr)
        cr == Call("RouteReplace", "main", link, fam, routeSpec, ~("main.replace" \in F))
    IN  IF lookup(RouteList(tbl, link, fam), listErr, routeSpec).out = "nil"
        THEN IF "main.replace" \in F
             THEN Result(tbl, <<cl, cr>>, "error", FALSE, <<"RouteReplace">>)
             ELSE Result(RouteReplace(tbl, routeSpec), <<cl, cr>>, "ok", TRUE, <<>>)
        ELSE Result(tbl, <<cl>>, "ok", FALSE, <<>>)

\* a replaceRoute that installs the main route before the on-link route
replaceRouteMainFirst(tbl, route, F) ==
    LET l == LinkByName(route.Device)
        c0 == Call("LinkByName", "resolve", l.Index, 0, NoRoute, l.ok)
    IN  IF ~l.ok
        THEN Result(tbl, <<c0>>, "error", FALSE, <<"unable to lookup interface", "LinkByName">>)
        ELSE
        LET link == l.Index
            m == replaceMain(tbl, link, mainRouteSpec(route, link), F)
            nh == replaceNexthopRoute(m.table, link, getNexthopAsIPNet(route), F)
        IN  IF m.status = "error" THEN Result(m.table, <<c0>> \o m.calls, "error", FALSE, m.err)
            ELSE IF nh.status = "panic"
            THEN Result(nh.table, <<c0>> \o m.calls, "panic", FALSE, <<>>)
            ELSE IF nh.status = "error"
            THEN Result(nh.table, <<c0>> \o m.calls \o nh.calls, "error", FALSE,
                        <<"unable to add nexthop route">> \o nh.err)
            ELSE Result(nh.table, <<c0>> \o m.calls \o nh.calls, "ok", m.changed, <<>>)

\* a replaceRoute that goes on to the main route after the on-link route
\* could not be installed
replaceRouteIgnoreNexthopErr(tbl, route, F) ==
    LET l == LinkByName(route.Device)
        c0 == Call("LinkByName", "resolve", l.Index, 0, NoRoute, l.ok)
    IN  IF ~l.ok
        THEN Result(tbl, <<c0>>, "error", FALSE, <<"unable to lookup interface", "LinkByName">>)
        ELSE
        LET link == l.Index
            nh == replaceNexthopRoute(tbl, link, getNexthopAsIPNet(route), F)
        IN  IF nh.status = "panic"
            THEN Result(nh.table, <<c0>> \o nh.calls, "panic", FALSE, <<>>)
            ELSE
            LET m == replaceMain(nh.table, link, mainRouteSpec(route, link), F)
            IN  Result(m.table, <<c0>> \o nh.calls \o m.calls, m.status, m.changed, m.err)

\* a replaceRoute that does not check the device resolution and goes on with
\* link index 0
replaceRouteNoLinkCheck(tbl, route, F) ==
    LET l == LinkByName(route.Device)
        c0 == Call("LinkByName", "resolve", l.Index, 0, NoRoute, l.ok)
        link == l.Index
        nh == replaceNexthopRoute(tbl, link, getNexthopAsIPNet(route), F)
    IN  IF nh.status = "panic"
        THEN Result(nh.table, <<c0>> \o nh.calls, "panic", FALSE, <<>>)
        ELSE IF nh.status = "error"
        THEN Result(nh.table, <<c0>> \o nh.calls, "error", FALSE,
                    <<"unable to add nexthop route">> \o nh.err)
        ELSE
        LET m == replaceMain(nh.table, link, mainRouteSpec(route, link), F)
        IN  Result(m.table, <<c0>> \o nh.calls \o m.calls, m.status, m.changed, m.err)

\* replaceRoute (route.go:201)
replaceRoute(tbl, route, F) ==
    LET l == LinkByName(route.Device)
        c0 == Call("LinkByName", "resolve", l.Index, 0, NoRoute, l.ok)
    IN  IF ~l.ok
        THEN Result(tbl, <<c0>>, "error", FALSE, <<"unable to lookup interface", "LinkByName">>)
        ELSE
        LET link == l.Index
            nh == replaceNexthopRoute(tbl, link, getNexthopAsIPNet(route), F)
        IN  IF nh.status = "panic"
            THEN Result(nh.table, <<c0>> \o nh.calls, "panic", FALSE, <<>>)
            ELSE IF nh.status = "error"
            THEN Result(nh.table, <<c0>> \o nh.calls, "error", FALSE,
                        <<"unable to add nexthop route">> \o nh.err)
            ELSE
            LET m == replaceMain(nh.table, link, mainRouteSpec(route, link), F)
            IN  Result(m.table, <<c0>> \o nh.calls \o m.calls, m.status, m.changed, m.err)

\* a delete request built like the install request, gateway and source
\* address included
deleteRouteSpecFull(route, link) ==
    [getNetlinkRoute(route) EXCEPT !.LinkIndex = link, !.MTU = 0]

\* the request deleteRoute builds (route.go:258-266)
deleteRouteSpec(route, link) ==
    NLRoute(route.Prefix, NilIP, NilIP, link,
            IF To4(route.Prefix.IP) # NilIP THEN route.Scope ELSE 0, 0)

\* a deleteRoute that lists the table first and makes no delete call for a
\* route it does not find
deleteRouteIfPresent(tbl, route, F, victim) ==
    LET l == LinkByName(route.Device)
        c0 == Call("LinkByName", "resolve", l.Index, 0, NoRoute, l.ok)
    IN  IF ~l.ok
        THEN Result(tbl, <<c0>>, "error", FALSE, <<"unable to lookup interface", "LinkByName">>)
        ELSE
        LET rs == deleteRouteSpec(route, l.Index)
            fam == ipFamily(rs.Dst.IP)
            cl == Call("RouteList", "delete", l.Index, fam, NoRoute, TRUE)
            cd == Call("RouteDel", "delete", l.Index, fam, rs, ~("delete" \in F))
        IN  IF victim \notin DelMatches(tbl, rs) THEN Result(tbl, <<c0, cl>>, "ok", FALSE, <<>>)
            ELSE IF "delete" \in F
            THEN Result(tbl, <<c0, cl, cd>>, "error", FALSE, <<"RouteDel">>)
            ELSE Result(tbl \ {victim}, <<c0, cl, cd>>, "ok", FALSE, <<>>)

\* deleteRoute (route.go:250); victim is the route the kernel removes among
\* those the request selects
deleteRoute(tbl, route, F, victim) ==
    LET l == LinkByName(route.Device)
        c0 == Call("LinkByName", "resolve", l.Index, 0, NoRoute, l.ok)
    IN  IF ~l.ok
        THEN Result(tbl, <<c0>>, "error", FALSE, <<"unable to lookup interface", "LinkByName">>)
        ELSE
        LET rs == deleteRouteSpec(route, l.Index)
            fails == "delete" \in F \/ victim \notin DelMatches(tbl, rs)
            cd == Call("RouteDel", "delete", l.Index, ipFamily(rs.Dst.IP), rs, ~fails)
        IN  IF fails
            THEN Result(tbl, <<c0, cd>>, "error", FALSE, <<"RouteDel">>)
            ELSE Result(tbl \ {victim}, <<c0, cd>>, "ok", FALSE, <<>>)

(***************************************************************************)
(* The inputs: route specifications of both families, with and without a   *)
(* gateway, and the routes other actors put into the table.                *)
(***************************************************************************)
Gateway4 == IP4(1, 1)
Gateway6 == IP6(1, 1)
Prefix4 == IPNet(IP4(1, 0), 24, V4Bits)
Prefix6 == IPNet(IP6(1, 0), 64, V6Bits)

SpecPrefixes == {Prefix4, Prefix6}
SpecNexthops(p) == IF To4(p.IP) # NilIP THEN {NilIP, Gateway4} ELSE {NilIP, Gateway6}
\* (Local, MTU, Scope) of the specifications with a gateway: no MTU, and
\* an MTU with Local inside the prefix, outside it and absent
SpecLocalMTUScopes(p) ==
    LET in == IF To4(p.IP) # NilIP THEN IP4(1, 2) ELSE IP6(1, 2)
        out == IF To4(p.IP) # NilIP THEN IP4(2, 2) ELSE IP6(2, 2)
    IN  {<<NilIP, 0, 0>>, <<NilIP, 0, SCOPE_LINK>>, <<in, 9000, 0>>,
         <<out, 9000, 0>>, <<NilIP, 9000, SCOPE_LINK>>}

\* specifications on eth0 with a gateway, on eth0 without one, and on a
\* device that does not exist
RouteSpecs ==
    UNION {{Route(p, n, x[1], "eth0", x[2], x[3]) :
               n \in SpecNexthops(p) \ {NilIP}, x \in SpecLocalMTUScopes(p)}
           \cup {Route(p, NilIP, x[1], "eth0", x[2], x[3]) :
                    x \in {y \in SpecLocalMTUScopes(p) : y[1] = NilIP}}
           \cup {Route(p, n, NilIP, "nodev", 0, 0) : n \in SpecNexthops(p)}
           : p \in SpecPrefixes}

\* routes of other actors: an on-link route of the IPv4 gateway with the
\* scope of a global route, a default route, a route of eth1
ExtRoutes ==
    {NLRoute(IPNet(Gateway4, V4Bits, V4Bits), NilIP, NilIP, 1, 0, 0),
     NLRoute(NilNet, NilIP, Gateway4, 1, 0, 0),
     NLRoute(Prefix4, NilIP, Gateway4, 2, 0, 0)}

\* the record of an operation: the specification, the table before it, the
\* adapter calls in order and the return; seq tells a call from the call
\* before it when the caller repeats a call
Op(op, route, before, res, seq) ==
    [op |-> op, route |-> route, before |-> before, calls |-> res.calls,
     status |-> res.status, changed |-> res.changed, err |-> res.err, seq |-> seq]

NoOp(op) == Op(op, NoSpec, {}, Result({}, <<>>, "", FALSE, <<>>), 0)

NextSeq == IF last.op = "ReplaceRoute" THEN 1 - last.seq ELSE 1

NoLookup == [routes |-> <<>>, err |-> FALSE, route |-> NoRoute, out |-> "", r |-> NoRoute]

\* the value of the variables of the other specifications
Unused == <<>>

(***************************************************************************)
(* Spec: calls into the package and the other actors of the table          *)
(***************************************************************************)
Init ==
    /\ table = {}
    /\ last = NoOp("init")
    /\ lk = NoLookup
    /\ race = Unused /\ srt = Unused /\ vm = Unused /\ gs = Unused

\* a call starts when the caller holds no result, or reconciles again the
\* specification of the ReplaceRoute that just returned
MayCall(op, route) ==
    \/ last.op \in {"init", "idle", "external"}
    \/ op = "ReplaceRoute" /\ last.op = "ReplaceRoute" /\ route = last.route

\* ReplaceRoute (route.go:238), run to completion
ReplaceRoute ==
    /\ \E route \in RouteSpecs :
          /\ MayCall("ReplaceRoute", route)
          /\ \E res \in {replaceRoute(table, route, F) : F \in SUBSET (Sites \ {"delete"})} :
                /\ Cardinality(res.table) <= MaxRoutes
                /\ table' = res.table
                /\ last' = Op("ReplaceRoute", route, table, res, NextSeq)
    /\ UNCHANGED <<lk, race, srt, vm, gs>>

\* DeleteRoute (route.go:276), run to completion
DeleteRoute ==
    /\ \E route \in RouteSpecs, F \in SUBSET {"delete"} :
          /\ MayCall("DeleteRoute", route)
          /\ LET l == LinkByName(route.Device)
                 sel == IF l.ok THEN DelMatches(table, deleteRouteSpec(route, l.Index)) ELSE {}
             IN  \E victim \in (IF sel = {} THEN {NoRoute} ELSE sel) :
                    LET res == deleteRoute(table, route, F, victim) IN
                    /\ table' = res.table
                    /\ last' = Op("DeleteRoute", route, table, res, 1)
    /\ UNCHANGED <<lk, race, srt, vm, gs>>

\* the caller drops the specification and the result of the call that returned
Discard ==
    /\ last.op \in {"ReplaceRoute", "DeleteRoute"}
    /\ last' = NoOp("idle")
    /\ UNCHANGED <<table, lk, race, srt, vm, gs>>

\* another actor installs a route
ExtAdd ==
    /\ \E r \in ExtRoutes :
          /\ Cardinality(RouteReplace(table, r)) <= MaxRoutes
          /\ table' = RouteReplace(table, r)
    /\ last' = NoOp("external")
    /\ UNCHANGED <<lk, race, srt, vm, gs>>

\* another actor removes a route
ExtDel ==
    /\ \E r \in table : table' = table \ {r}
    /\ last' = NoOp("external")
    /\ UNCHANGED <<lk, race, srt, vm, gs>>

Next == ReplaceRoute \/ DeleteRoute \/ Discard \/ ExtAdd \/ ExtDel

Spec == Init /\ [][Next]_vars

(***************************************************************************)
(* SpecLookup: lookup() applied to a listing and a filter route drawn from *)
(* routes that differ from one base route in one compared field each.      *)
(***************************************************************************)
LkBase == NLRoute(Prefix4, NilIP, Gateway4, 1, 0, 0)

\* what RouteList can return: kernel-form routes
LkExisting ==
    {LkBase,
     [LkBase EXCEPT !.Dst = IPNet(IP4(2, 0), 24, V4Bits)],
     [LkBase EXCEPT !.Dst = IPNet(IP4(1, 0), 16, V4Bits)],
     [LkBase EXCEPT !.Gw = NilIP],
     [LkBase EXCEPT !.LinkIndex = 2],
     [LkBase EXCEPT !.Scope = SCOPE_LINK],
     [LkBase EXCEPT !.MTU = DeviceMTU, !.Src = IP4(1, 2)],
     [LkBase EXCEPT !.Dst = NilNet]}

\* the filter routes: the same, and the base route with its addresses in
\* 16-byte form, with a 128-bit mask, and with an IPv6 gateway
LkFilters ==
    LkExisting \cup
    {[LkBase EXCEPT !.Dst = IPNet(IP4in6(1, 0), 24, V4Bits), !.Gw = IP4in6(1, 1)],
     [LkBase EXCEPT !.Dst = IPNet(IP4in6(1, 0), 24, V6Bits)],
     [LkBase EXCEPT !.Gw = IP6(1, 1)]}

RECURSIVE SeqsUpTo(_, _)
SeqsUpTo(S, n) ==
    IF n = 0 THEN {<<>>}
    ELSE LET shorter == SeqsUpTo(S, n - 1)
         IN  shorter \cup {Append(q, x) : q \in {t \in shorter : Len(t) = n - 1}, x \in S}

InitLookup ==
    /\ table = {}
    /\ last = NoOp("init")
    /\ lk \in {[routes |-> rs, err |-> e, route |-> f, out |-> "", r |-> NoRoute] :
                  rs \in SeqsUpTo(LkExisting, MaxLen), e \in BOOLEAN, f \in LkFilters}
    /\ race = Unused /\ srt = Unused /\ vm = Unused /\ gs = Unused

\* lookup(link, route) on the listing lk.routes (or its failure lk.err)
Lookup ==
    /\ lk.out = ""
    /\ LET res == lookup(lk.routes, lk.err, lk.route)
       IN  lk' = [lk EXCEPT !.out = res.out, !.r = res.r]
    /\ UNCHANGED <<table, last, race, srt, vm, gs>>

NextLookup == Lookup

SpecLookup == InitLookup /\ [][NextLookup]_vars

(***************************************************************************)
(* SpecRace: two goroutines call ReplaceRoute with the same specification. *)
(* route.go takes no lock, so the calls interleave between adapter calls;  *)
(* each adapter call is one step on the shared table.                      *)
(***************************************************************************)
Procs == {1, 2}

RaceSpecs ==
    {Route(Prefix4, Gateway4, NilIP, "eth0", 0, 0),
     Route(Prefix6, Gateway6, IP6(1, 2), "eth0", 9000, 0),
     Route(Prefix4, NilIP, NilIP, "eth0", 0, 0),
     Route(Prefix4, Gateway4, NilIP, "nodev", 0, 0)}

\* the tables the calls start on: empty, or holding routes of other actors
RaceTables == {{}} \cup {{r} : r \in ExtRoutes}

\* the locals of one replaceRoute call
RaceLocal(pc, link, changed, status, err) ==
    [pc |-> pc, link |-> link, changed |-> changed, status |-> status, err |-> err]

RaceLogged(p, c) == [race EXCEPT !.log = Append(@, [proc |-> p, call |-> c])]

InitRace ==
    /\ table \in RaceTables
    /\ \E route \in RaceSpecs :
          race = [route |-> route, before |-> table, log |-> <<>>,
                  g |-> [p \in Procs |-> RaceLocal("resolve", 0, FALSE, "", <<>>)]]
    /\ last = NoOp("init")
    /\ lk = NoLookup
    /\ srt = Unused /\ vm = Unused /\ gs = Unused

\* route.go:202-205
RaceResolve(p) ==
    /\ race.g[p].pc = "resolve"
    /\ LET l == LinkByName(race.route.Device)
           c0 == Call("LinkByName", "resolve", l.Index, 0, NoRoute, l.ok)
       IN  race' = [RaceLogged(p, c0) EXCEPT !.g[p] =
                       IF l.ok THEN RaceLocal("nexthop.lookup", l.Index, FALSE, "", <<>>)
                       ELSE RaceLocal("done", 0, FALSE, "error",
                                      <<"unable to lookup interface", "LinkByName">>)]
    /\ UNCHANGED <<table, last, lk, srt, vm, gs>>

\* route.go:207-208, 175-176: the lookup of the on-link route
RaceNexthopLookup(p) ==
    /\ race.g[p].pc = "nexthop.lookup"
    /\ LET link == race.g[p].link
           c == createNexthopRoute(link, getNexthopAsIPNet(race.route))
       IN  IF c.panic
           THEN race' = [race EXCEPT !.g[p] = RaceLocal("done", link, FALSE, "panic", <<>>)]
           ELSE \E listErr \in BOOLEAN :
                   LET fam == ipFamily(c.rt.Dst.IP)
                       cl == Call("RouteList", "nexthop", link, fam, NoRoute, ~listErr)
                       absent == lookup(RouteList(table, link, fam), listErr, c.rt).out = "nil"
                   IN  race' = [RaceLogged(p, cl) EXCEPT !.g[p].pc =
                                   IF absent THEN "nexthop.replace" ELSE "main.lookup"]
    /\ UNCHANGED <<table, last, lk, srt, vm, gs>>

\* route.go:179-185, 208-210: the install of the on-link route
RaceNexthopReplace(p) ==
    /\ race.g[p].pc = "nexthop.replace"
    /\ LET link == race.g[p].link
           rt == createNexthopRoute(link, getNexthopAsIPNet(race.route)).rt
       IN  \E ok \in BOOLEAN :
              LET cr == Call("RouteReplace", "nexthop", link, ipFamily(rt.Dst.IP), rt, ok)
              IN  IF ok
                  THEN /\ table' = RouteReplace(table, rt)
                       /\ race' = [RaceLogged(p, cr) EXCEPT !.g[p].pc = "main.lookup"]
                  ELSE /\ table' = table
                       /\ race' = [RaceLogged(p, cr) EXCEPT !.g[p] =
                                      RaceLocal("done", link, FALSE, "error",
                                                <<"unable to add nexthop route",
                                                  "unable to add L2 nexthop route",
                                                  "RouteReplace">>)]
    /\ UNCHANGED <<last, lk, srt, vm, gs>>

\* route.go:212-226, 234: the install request and the lookup of the main route
RaceMainLookup(p) ==
    /\ race.g[p].pc = "main.lookup"
    /\ LET link == race.g[p].link
           routeSpec == mainRouteSpec(race.route, link)
           fam == ipFamily(routeSpec.Dst.IP)
       IN  \E listErr \in BOOLEAN :
              LET cl == Call("RouteList", "main", link, fam, NoRoute, ~listErr)
                  absent == lookup(RouteList(table, link, fam), listErr, routeSpec).out = "nil"
              IN  race' = [RaceLogged(p, cl) EXCEPT !.g[p] =
                              IF absent THEN RaceLocal("main.replace", link, FALSE, "", <<>>)
                              ELSE RaceLocal("done", link, FALSE, "ok", <<>>)]
    /\ UNCHANGED <<table, last, lk, srt, vm, gs>>

\* an install that looks at the table again and leaves a route it finds
\* there by now, reporting no change
RaceMainReplaceChecked(p) ==
    /\ race.g[p].pc = "main.replace"
    /\ LET link == race.g[p].link
           routeSpec == mainRouteSpec(race.route, link)
           fam == ipFamily(routeSpec.Dst.IP)
           cr == Call("RouteReplace", "main", link, fam, routeSpec, TRUE)
       IN  IF lookup(RouteList(table, link, fam), FALSE, routeSpec).out = "nil"
           THEN /\ table' = RouteReplace(table, routeSpec)
                /\ race' = [RaceLogged(p, cr) EXCEPT !.g[p] =
                               RaceLocal("done", link, TRUE, "ok", <<>>)]
           ELSE /\ table' = table
                /\ race' = [race EXCEPT !.g[p] = RaceLocal("done", link, FALSE, "ok", <<>>)]
    /\ UNCHANGED <<last, lk, srt, vm, gs>>

\* route.go:227-231: the install of the main route
RaceMainReplace(p) ==
    /\ race.g[p].pc = "main.replace"
    /\ LET link == race.g[p].link
           routeSpec == mainRouteSpec(race.route, link)
       IN  \E ok \in BOOLEAN :
              LET cr == Call("RouteReplace", "main", link, ipFamily(routeSpec.Dst.IP),
                             routeSpec, ok)
              IN  IF ok
                  THEN /\ table' = RouteReplace(table, routeSpec)
                       /\ race' = [RaceLogged(p, cr) EXCEPT !.g[p] =
                                      RaceLocal("done", link, TRUE, "ok", <<>>)]
                  ELSE /\ table' = table
                       /\ race' = [RaceLogged(p, cr) EXCEPT !.g[p] =
                                      RaceLocal("done", link, FALSE, "error", <<"RouteReplace">>)]
    /\ UNCHANGED <<last, lk, srt, vm, gs>>

NextRace ==
    \E p \in Procs :
       \/ RaceResolve(p)
       \/ RaceNexthopLookup(p)
       \/ RaceNexthopReplace(p)
       \/ RaceMainLookup(p)
       \/ RaceMainReplace(p)

SpecRace == InitRace /\ [][NextRace]_vars

(***************************************************************************)
(* SpecSort: ByMask (route.go:95), the sort.Interface over a slice of      *)
(* routes, and a stable sort driving it.                                   *)
(***************************************************************************)
\* Prefix.Mask.Size(): the mask length
MaskLen(r) == r.Prefix.ones

\* ByMask.Len (route.go:98)
ByMaskLen(a) == Len(a)

\* a comparator that also puts a route before a route of the same mask length
LessOrEqual(a, i, j) == MaskLen(a[i]) >= MaskLen(a[j])

\* ByMask.Less (route.go:102)
Less(a, i, j) == MaskLen(a[i]) > MaskLen(a[j])

\* ByMask.Swap (route.go:108)
Swap(a, i, j) == [a EXCEPT ![i] = a[j], ![j] = a[i]]

\* the inner loop of the insertion sort: element j moves down while it is
\* Less than its predecessor
RECURSIVE SinkDown(_, _)
SinkDown(a, j) ==
    IF j > 1 /\ Less(a, j, j - 1) THEN SinkDown(Swap(a, j, j - 1), j - 1) ELSE a

RECURSIVE InsertionSort(_, _)
InsertionSort(a, i) ==
    IF i > ByMaskLen(a) THEN a ELSE InsertionSort(SinkDown(a, i), i + 1)

\* the caller's stable sort of the slice through Len, Less and Swap
StableSort(a) == InsertionSort(a, 2)

\* routes of mask lengths 8, 24 (two of them), 32 and 64
SortRoutes ==
    {Route(IPNet(IP4(1, 0), 8, V4Bits), NilIP, NilIP, "eth0", 0, 0),
     Route(Prefix4, Gateway4, NilIP, "eth0", 0, 0),
     Route(IPNet(IP4(2, 0), 24, V4Bits), NilIP, NilIP, "eth1", 0, 0),
     Route(IPNet(Gateway4, V4Bits, V4Bits), NilIP, NilIP, "eth0", 0, SCOPE_LINK),
     Route(Prefix6, Gateway6, NilIP, "eth0", 0, 0)}

InitSort ==
    /\ srt \in {[in |-> a, out |-> a, done |-> FALSE] : a \in SeqsUpTo(SortRoutes, MaxSortLen)}
    /\ table = {}
    /\ last = NoOp("init")
    /\ lk = NoLookup
    /\ race = Unused /\ vm = Unused /\ gs = Unused

\* the slice is sorted in place
Sort ==
    /\ ~srt.done
    /\ srt' = [srt EXCEPT !.out = StableSort(srt.in), !.done = TRUE]
    /\ UNCHANGED <<table, last, lk, race, vm, gs>>

NextSort == Sort

SpecSort == InitSort /\ [][NextSort]_vars

(***************************************************************************)
(* pkg/versioned/map.go.  An Object is its Data and its Version; a         *)
(* ComparableMap is its Map (a function on the mapped UUIDs) and its        *)
(* DeepEquals function.                                                    *)
(***************************************************************************)
UUIDs == {"foo", "bar"}
Datas == {"nil", "bar"}
Versions == 1..MaxVersion

Object(data, version) == [Data |-> data, Version |-> version]

\* the zero Object, as a map read of an unmapped key returns it
ZeroObject == Object("nil", 0)

Objects == {Object(d, v) : d \in Datas, v \in Versions}

\* o.CompareVersion(other): positive when o is newer than other
CompareVersion(o, other) ==
    IF o.Version > other.Version THEN 1
    ELSE IF o.Version < other.Version THEN 0 - 1
    ELSE 0

\* the DeepEqualFunc values: the two constant functions of the tests and
\* the comparison of the data
DeepEqualFuncs == {"true", "false", "equal"}

DeepEquals(f, o1, o2) ==
    CASE f = "true" -> TRUE
      [] f = "false" -> FALSE
      [] OTHER -> o1 = o2

ComparableMap(map, f) == [Map |-> map, DeepEquals |-> f]

\* NewComparableMap (map.go:37)
NewComparableMap(equalFunc) == ComparableMap(<<>>, equalFunc)

\* m.Map[uuid] = obj
MapSet(map, uuid, obj) ==
    [u \in DOMAIN map \cup {uuid} |-> IF u = uuid THEN obj ELSE map[u]]

\* delete(m.Map, uuid)
MapDelete(map, uuid) == [u \in DOMAIN map \ {uuid} |-> map[u]]

\* the return of a method: the map it leaves, the value and the flag returned
Ret(m, obj, ok) == [m |-> m, obj |-> obj, ok |-> ok]

\* an AddEqual that also stores an object of the version already stored
AddEqualNotOlder(m, uuid, obj) ==
    IF uuid \in DOMAIN m.Map
    THEN LET oldObj == m.Map[uuid] IN
         IF CompareVersion(obj, oldObj) >= 0
         THEN Ret([m EXCEPT !.Map = MapSet(@, uuid, obj)], ZeroObject,
                  DeepEquals(m.DeepEquals, oldObj.Data, obj.Data))
         ELSE Ret(m, ZeroObject, TRUE)
    ELSE Ret([m EXCEPT !.Map = MapSet(@, uuid, obj)], ZeroObject, FALSE)

\* an AddEqual that stores the object whatever its version
AddEqualAnyVersion(m, uuid, obj) ==
    IF uuid \in DOMAIN m.Map
    THEN Ret([m EXCEPT !.Map = MapSet(@, uuid, obj)], ZeroObject,
             DeepEquals(m.DeepEquals, m.Map[uuid].Data, obj.Data))
    ELSE Ret([m EXCEPT !.Map = MapSet(@, uuid, obj)], ZeroObject, FALSE)

\* ComparableMap.AddEqual (map.go:48)
AddEqual(m, uuid, obj) ==
    IF uuid \in DOMAIN m.Map
    THEN LET oldObj == m.Map[uuid] IN
         IF CompareVersion(obj, oldObj) > 0
         THEN Ret([m EXCEPT !.Map = MapSet(@, uuid, obj)], ZeroObject,
                  DeepEquals(m.DeepEquals, oldObj.Data, obj.Data))
         ELSE Ret(m, ZeroObject, TRUE)
    ELSE Ret([m EXCEPT !.Map = MapSet(@, uuid, obj)], ZeroObject, FALSE)

\* ComparableMap.Add (map.go:64)
Add(m, uuid, obj) == Ret([m EXCEPT !.Map = MapSet(@, uuid, obj)], ZeroObject, FALSE)

\* ComparableMap.Delete (map.go:70)
Delete(m, uuid) ==
    LET exists == uuid \in DOMAIN m.Map IN
    Ret(IF exists THEN [m EXCEPT !.Map = MapDelete(@, uuid)] ELSE m, ZeroObject, exists)

\* ComparableMap.Get (map.go:80)
Get(m, uuid) ==
    LET exists == uuid \in DOMAIN m.Map IN
    Ret(m, IF exists THEN m.Map[uuid] ELSE ZeroObject, exists)

(***************************************************************************)
(* SpecMap: one ComparableMap and calls of its methods                     *)
(***************************************************************************)
\* the record of a call: the method, its arguments, the map before it and
\* what it returned
MapOp(op, uuid, obj, before, r) ==
    [op |-> op, uuid |-> uuid, obj |-> obj, before |-> before, retObj |-> r.obj, ret |-> r.ok]

InitMap ==
    /\ \E f \in DeepEqualFuncs :
          vm = [cm |-> NewComparableMap(f),
                last |-> MapOp("new", "", ZeroObject, <<>>, Ret(<<>>, ZeroObject, FALSE))]
    /\ table = {}
    /\ last = NoOp("init")
    /\ lk = NoLookup
    /\ race = Unused /\ srt = Unused /\ gs = Unused

CallAddEqual ==
    /\ \E uuid \in UUIDs, obj \in Objects :
          LET r == AddEqual(vm.cm, uuid, obj)
          IN  vm' = [cm |-> r.m, last |-> MapOp("AddEqual", uuid, obj, vm.cm.Map, r)]
    /\ UNCHANGED <<table, last, lk, race, srt, gs>>

CallAdd ==
    /\ \E uuid \in UUIDs, obj \in Objects :
          LET r == Add(vm.cm, uuid, obj)
          IN  vm' = [cm |-> r.m, last |-> MapOp("Add", uuid, obj, vm.cm.Map, r)]
    /\ UNCHANGED <<table, last, lk, race, srt, gs>>

CallDelete ==
    /\ \E uuid \in UUIDs :
          LET r == Delete(vm.cm, uuid)
          IN  vm' = [cm |-> r.m, last |-> MapOp("Delete", uuid, ZeroObject, vm.cm.Map, r)]
    /\ UNCHANGED <<table, last, lk, race, srt, gs>>

CallGet ==
    /\ \E uuid \in UUIDs :
          LET r == Get(vm.cm, uuid)
          IN  vm' = [cm |-> r.m, last |-> MapOp("Get", uuid, ZeroObject, vm.cm.Map, r)]
    /\ UNCHANGED <<table, last, lk, race, srt, gs>>

NextMap == CallAddEqual \/ CallAdd \/ CallDelete \/ CallGet

SpecMap == InitMap /\ [][NextMap]_vars

\* the same map with no other method called than AddEqual
NextAddEqual == CallAddEqual

SpecAddEqual == InitMap /\ [][NextAddEqual]_vars

(***************************************************************************)
(* SyncComparableMap (map.go:86).  Its cm field points to a ComparableMap: *)
(* heap maps the addresses of the ComparableMaps that exist to their       *)
(* values, address 0 is the nil pointer.  mutex is "nil" for the nil       *)
(* *lock.RWMutex.                                                          *)
(***************************************************************************)
SyncComparableMap(mutex, cm) == [mutex |-> mutex, cm |-> cm]

\* NewSyncComparableMap (map.go:92): the mutex field is left unset
NewSyncComparableMap(cm) == SyncComparableMap("nil", cm)

\* the SyncComparableMap literal of map_test.go:197
SyncComparableMapLiteral(cm) == SyncComparableMap("set", cm)

\* the iterate functions handed to DoLocked: none, one that reads its
\* arguments, one that assigns to the value it received (map_test.go:172)
IterateFuncs == {"nil", "read", "write"}

\* the value parameter of iterate when iterate returns
IterateValue(iterate, value) ==
    IF iterate = "write" THEN [value EXCEPT !.Version = IterateVersion] ELSE value

\* the replace functions handed to DoLocked: none; returning the old map,
\* another map (map_test.go:188) or nil, without error; returning an error
\* with nil or with another map; adding to the old map and returning an error
ReplaceFuncs == {"nil", "same", "other", "nilmap", "error", "errorOther", "addThenError"}

\* a call of iterate or replace as DoLocked makes it
Callback(fn, key, value, old, new, err) ==
    [fn |-> fn, key |-> key, value |-> value, old |-> old, new |-> new, err |-> err]

\* replace(old): the map and the error it returns, and the heap it leaves
ReplaceCall(replace, old, heap) ==
    CASE replace = "same" -> [new |-> old, err |-> FALSE, heap |-> heap]
      [] replace = "other" -> [new |-> 2, err |-> FALSE, heap |-> heap]
      [] replace = "nilmap" -> [new |-> 0, err |-> FALSE, heap |-> heap]
      [] replace = "error" -> [new |-> 0, err |-> TRUE, heap |-> heap]
      [] replace = "errorOther" -> [new |-> 2, err |-> TRUE, heap |-> heap]
      [] OTHER -> [new |-> 0, err |-> TRUE,
                   heap |-> [heap EXCEPT ![old].Map = MapSet(@, "bar", Object("bar", 1))]]

\* a loop that hands iterate the stored value itself, so that what iterate
\* assigns to it is in the map
RangeOverByReference(map, iterate, order) ==
    [Map |-> [k \in DOMAIN map |-> IterateValue(iterate, map[k])],
     calls |-> [i \in DOMAIN order |->
                  Callback("iterate", order[i], map[order[i]], 0, 0, FALSE)]]

\* map.go:149-151: for k, v := range sm.cm.Map { iterate(k, v) }, the keys
\* coming in the order the runtime picks; v is a copy of the stored value
RangeOver(map, iterate, order) ==
    [Map |-> map,
     calls |-> [i \in DOMAIN order |->
                  Callback("iterate", order[i], map[order[i]], 0, 0, FALSE)]]

\* what runs between Lock and Unlock: the heap and the cm field it leaves,
\* the return values, the callbacks called, the map left by the iteration;
\* panic is a nil pointer dereference
Locked(heap, cm, obj, ok, err, panic, calls, iterated) ==
    [heap |-> heap, cm |-> cm, obj |-> obj, ok |-> ok, err |-> err, panic |-> panic,
     calls |-> calls, iterated |-> iterated]

\* SyncComparableMap.DoLocked between Lock and Unlock (map.go:148-160)
DoLocked(heap, cm, iterate, replace, order) ==
    IF cm = 0 /\ (iterate # "nil" \/ replace = "addThenError")
    THEN Locked(heap, cm, ZeroObject, FALSE, FALSE, TRUE, <<>>, <<>>)
    ELSE
    LET it == IF iterate # "nil" THEN RangeOver(heap[cm].Map, iterate, order)
              ELSE [Map |-> IF cm = 0 THEN <<>> ELSE heap[cm].Map, calls |-> <<>>]
        heap1 == IF cm = 0 THEN heap ELSE [heap EXCEPT ![cm].Map = it.Map]
    IN  IF replace = "nil"
        THEN Locked(heap1, cm, ZeroObject, FALSE, FALSE, FALSE, it.calls, it.Map)
        ELSE LET r == ReplaceCall(replace, cm, heap1)
                 c == Callback("replace", "", ZeroObject, cm, r.new, r.err)
             IN  Locked(r.heap, IF r.err THEN cm ELSE r.new, ZeroObject, FALSE, r.err, FALSE,
                        Append(it.calls, c), it.Map)

\* a call of a SyncComparableMap method with its arguments
SyncCall(name, uuid, obj, iterate, replace) ==
    [name |-> name, uuid |-> uuid, obj |-> obj, iterate |-> iterate, replace |-> replace]

\* sm.cm.Add / AddEqual / Delete / Get between the lock and the unlock
\* (map.go:101, 111, 120, 129), and DoLocked
SyncApply(call, heap, cm, order) ==
    IF call.name = "DoLocked" THEN DoLocked(heap, cm, call.iterate, call.replace, order)
    ELSE IF cm = 0 THEN Locked(heap, cm, ZeroObject, FALSE, FALSE, TRUE, <<>>, <<>>)
    ELSE LET r == CASE call.name = "Add" -> Add(heap[cm], call.uuid, call.obj)
                    [] call.name = "AddEqual" -> AddEqual(heap[cm], call.uuid, call.obj)
                    [] call.name = "Delete" -> Delete(heap[cm], call.uuid)
                    [] OTHER -> Get(heap[cm], call.uuid)
         IN  Locked([heap EXCEPT ![cm] = r.m], cm, r.obj, r.ok, FALSE, FALSE, <<>>, <<>>)

(***************************************************************************)
(* SpecSync: goroutines calling the methods of one SyncComparableMap, one  *)
(* call each, a step at the lock, one between lock and unlock, one at the  *)
(* unlock.  mu is the state of the RWMutex sm.mutex points to.             *)
(***************************************************************************)
SyncCalls ==
    {SyncCall("Add", "foo", Object("bar", 2), "nil", "nil"),
     SyncCall("AddEqual", "foo", Object("nil", 2), "nil", "nil"),
     SyncCall("AddEqual", "bar", Object("bar", 1), "nil", "nil"),
     SyncCall("Delete", "foo", ZeroObject, "nil", "nil"),
     SyncCall("Get", "foo", ZeroObject, "nil", "nil")}
    \cup {SyncCall("DoLocked", "", ZeroObject, x[1], x[2]) :
             x \in {<<"read", "nil">>, <<"write", "nil">>, <<"nil", "same">>,
                    <<"nil", "other">>, <<"write", "other">>, <<"read", "error">>,
                    <<"write", "errorOther">>, <<"nil", "nilmap">>,
                    <<"write", "addThenError">>, <<"nil", "nil">>}}

\* the map m of map_test.go:137-145
TestMap(f) == ComparableMap([u \in {"foo"} |-> Object("bar", 1)], f)

\* the orders in which a range loop can visit the keys of map
KeyOrders(map) ==
    {q \in SeqsUpTo(DOMAIN map, Cardinality(DOMAIN map)) :
        /\ Len(q) = Cardinality(DOMAIN map)
        /\ \A i, j \in DOMAIN q : i # j => q[i] # q[j]}

\* the locals of a goroutine: where it is, its call, what the call returned
\* and, of the step between lock and unlock, the cm field and its map
\* before, the callbacks called, the map left by the iteration, cm after
Goroutine(pc, call, r, cmBefore, mapBefore) ==
    [pc |-> pc, call |-> call, obj |-> r.obj, ok |-> r.ok, err |-> r.err,
     calls |-> r.calls, iterated |-> r.iterated,
     cmBefore |-> cmBefore, mapBefore |-> mapBefore, cmAfter |-> r.cm]

NotRun == Locked(<<>>, 0, ZeroObject, FALSE, FALSE, FALSE, <<>>, <<>>)

\* the map is built by NewSyncComparableMap, or as map_test.go:197 builds
\* it: with a mutex, over an empty map or over the map m
InitSync ==
    /\ \E f \in {"true", "equal"}, ctor \in {"New", "literal"}, c1, c2 \in SyncCalls :
          \E first \in (IF ctor = "New" THEN {NewComparableMap(f)}
                         ELSE {NewComparableMap(f), TestMap(f)}) :
             LET heap == <<first, TestMap(f)>> IN
             gs = [ctor |-> ctor,
                   heap |-> heap,
                   heap0 |-> heap,
                   sm |-> IF ctor = "New" THEN NewSyncComparableMap(1)
                          ELSE SyncComparableMapLiteral(1),
                   mu |-> [writer |-> 0, readers |-> {}],
                   g |-> [p \in Procs |->
                            Goroutine("start", IF p = 1 THEN c1 ELSE c2, NotRun, 0, <<>>)]]
    /\ table = {}
    /\ last = NoOp("init")
    /\ lk = NoLookup
    /\ race = Unused /\ srt = Unused /\ vm = Unused

\* sm.mutex.Lock() (map.go:100, 110, 119, 146): a nil pointer dereference
\* on the nil mutex, else the goroutine waits for the lock
SyncLock(p) ==
    /\ gs.g[p].pc = "start" /\ gs.g[p].call.name # "Get"
    /\ \/ /\ gs.sm.mutex = "nil"
          /\ gs' = [gs EXCEPT !.g[p].pc = "panic"]
       \/ /\ gs.sm.mutex # "nil"
          /\ gs.mu.writer = 0 /\ gs.mu.readers = {}
          /\ gs' = [gs EXCEPT !.mu.writer = p, !.g[p].pc = "locked"]
    /\ UNCHANGED <<table, last, lk, race, srt, vm>>

\* sm.mutex.RLock() (map.go:128)
SyncRLock(p) ==
    /\ gs.g[p].pc = "start" /\ gs.g[p].call.name = "Get"
    /\ \/ /\ gs.sm.mutex = "nil"
          /\ gs' = [gs EXCEPT !.g[p].pc = "panic"]
       \/ /\ gs.sm.mutex # "nil"
          /\ gs.mu.writer = 0
          /\ gs' = [gs EXCEPT !.mu.readers = @ \cup {p}, !.g[p].pc = "locked"]
    /\ UNCHANGED <<table, last, lk, race, srt, vm>>

\* the method between lock and unlock (map.go:101, 111, 120, 129, 148-160).
\* A panic leaves the lock held, except in DoLocked, whose unlock is deferred
SyncBody(p) ==
    /\ gs.g[p].pc = "locked"
    /\ LET call == gs.g[p].call
           cm == gs.sm.cm
           map == IF cm = 0 THEN <<>> ELSE gs.heap[cm].Map
       IN  \E order \in KeyOrders(map) :
              LET r == SyncApply(call, gs.heap, cm, order) IN
              IF r.panic
              THEN gs' = [gs EXCEPT !.g[p].pc = "panic",
                                    !.mu.writer = IF call.name = "DoLocked" THEN 0 ELSE @]
              ELSE gs' = [gs EXCEPT !.heap = r.heap, !.sm.cm = r.cm,
                                    !.g[p] = Goroutine("unlock", call, r, cm, map)]
    /\ UNCHANGED <<table, last, lk, race, srt, vm>>

\* sm.mutex.Unlock() (map.go:102, 112, 121, 147)
SyncUnlock(p) ==
    /\ gs.g[p].pc = "unlock" /\ gs.g[p].call.name # "Get"
    /\ gs' = [gs EXCEPT !.mu.writer = 0, !.g[p].pc = "done"]
    /\ UNCHANGED <<table, last, lk, race, srt, vm>>

\* sm.mutex.RUnlock() (map.go:130)
SyncRUnlock(p) ==
    /\ gs.g[p].pc = "unlock" /\ gs.g[p].call.name = "Get"
    /\ gs' = [gs EXCEPT !.mu.readers = @ \ {p}, !.g[p].pc = "done"]
    /\ UNCHANGED <<table, last, lk, race, srt, vm>>

NextSync ==
    \E p \in Procs :
       \/ SyncLock(p)
       \/ SyncRLock(p)
       \/ SyncBody(p)
       \/ SyncUnlock(p)
       \/ SyncRUnlock(p)

SpecSync == InitSync /\ [][NextSync]_vars

(***************************************************************************)
(* Claims about lookup (SpecLookup)                                        *)
(***************************************************************************)
\* the same address, whatever its byte form; two absent addresses are the same
SameAddr(x, y) ==
    /\ (x.form = "nil") = (y.form = "nil")
    /\ (x.form = "v6") = (y.form = "v6")
    /\ x.net = y.net /\ x.host = y.host

\* the equivalence of an existing route and a desired route, both with a
\* destination
Equivalent(r, d) ==
    /\ r.Dst.ones = d.Dst.ones /\ r.Dst.bits = d.Dst.bits
    /\ SameAddr(r.Dst.IP, d.Dst.IP)
    /\ SameAddr(r.Gw, d.Gw)
    /\ r.LinkIndex = d.LinkIndex
    /\ r.Scope = d.Scope

LookupDone == lk.out # ""

AllHaveDst(routes) == \A i \in DOMAIN routes : ~routes[i].Dst.nil

\* C9: for a desired route with a destination and a listing of routes that
\* all have destinations, lookup reports a match exactly when some listed
\* route has the same mask length and bit-width, an equal destination
\* address, an equal gateway (both absent counts as equal), the same device
\* index and the same scope; the match it returns is such a route; on an
\* empty listing it reports absent; the table is left as it was.
C9_LookupMatchesIffEquivalent ==
    (LookupDone /\ ~lk.err /\ ~lk.route.Dst.nil /\ AllHaveDst(lk.routes)) =>
        /\ (lk.out = "found") <=>
              (\E i \in DOMAIN lk.routes : Equivalent(lk.routes[i], lk.route))
        /\ lk.out = "found" =>
              \E i \in DOMAIN lk.routes :
                 lk.r = lk.routes[i] /\ Equivalent(lk.routes[i], lk.route)
        /\ lk.out \in {"found", "nil"}
        /\ lk.routes = <<>> => lk.out = "nil"
        /\ table = {}

\* C9 witness: lookup matched a listed route that differs from the filter in
\* byte form only, with a non-matching route listed before it
C9_Witness ==
    /\ LookupDone /\ ~lk.err /\ lk.out = "found"
    /\ Len(lk.routes) = 2 /\ AllHaveDst(lk.routes)
    /\ lk.r = lk.routes[2] /\ lk.r.Dst # lk.route.Dst
    /\ ~Equivalent(lk.routes[1], lk.route)

\* C10: a desired route with no destination never matches a listed route
\* that has one, a desired route with a destination never matches a listed
\* route that has none, and in both cases lookup completes: it reports a
\* match only with a route that agrees with the filter on having a
\* destination, and absent when the listing holds only that one route.
C10_AbsenceNeverMatches ==
    (LookupDone /\ ~lk.err
       /\ \E i \in DOMAIN lk.routes : lk.routes[i].Dst.nil # lk.route.Dst.nil) =>
        /\ lk.out \in {"found", "nil"}
        /\ lk.out = "found" => lk.r.Dst.nil = lk.route.Dst.nil
        /\ Len(lk.routes) = 1 => lk.out = "nil"

(***************************************************************************)
(* Claims about ReplaceRoute and DeleteRoute (Spec)                        *)
(***************************************************************************)
Replaced == last.op = "ReplaceRoute"
Deleted == last.op = "DeleteRoute"

DeviceResolves == LinkByName(last.route.Device).ok
LinkOf == LinkByName(last.route.Device).Index
HasGateway == last.route.Nexthop # NilIP

IsCall(c, op, phase) == c.op = op /\ c.phase = phase

\* the positions in the call's adapter log of the calls op made in phase
CallsAt(op, phase) == {i \in DOMAIN last.calls : IsCall(last.calls[i], op, phase)}

\* the desired main route of the specification, as the table would hold it
IsMainRoute(t, route, link) ==
    /\ ~t.Dst.nil
    /\ t.Dst.ones = route.Prefix.ones /\ t.Dst.bits = route.Prefix.bits
    /\ SameAddr(t.Dst.IP, route.Prefix.IP)
    /\ SameAddr(t.Gw, route.Nexthop)
    /\ t.LinkIndex = link
    /\ t.Scope = route.Scope

\* an on-link host route of the gateway on the device: the gateway's full
\* length prefix, no gateway
IsOnLinkRoute(t, gw, link) ==
    /\ ~t.Dst.nil
    /\ t.Dst.ones = t.Dst.bits
    /\ t.Dst.bits = (IF gw.form = "v6" THEN V6Bits ELSE V4Bits)
    /\ SameAddr(t.Dst.IP, gw)
    /\ t.Gw = NilIP
    /\ t.LinkIndex = link

\* the on-link route the nexthop phase looks for: also of scope link for an
\* IPv4 gateway and of no scope for an IPv6 gateway
IsNexthopRoute(t, gw, link) ==
    /\ IsOnLinkRoute(t, gw, link)
    /\ t.Scope = (IF gw.form = "v6" THEN 0 ELSE SCOPE_LINK)

AllCallsOk(o) == \A i \in DOMAIN o.calls : o.calls[i].ok

\* C2: for a specification whose device resolves and whose adapter calls
\* all succeed, starting from a table with no equivalent route, two
\* consecutive ReplaceRoute calls with no change in between report "changed"
\* on the first and "unchanged" on the second.
C2_Idempotent ==
    [][(/\ last.op = "ReplaceRoute" /\ last'.op = "ReplaceRoute"
        /\ last'.route = last.route /\ last'.before = table
        /\ LinkByName(last.route.Device).ok
        /\ AllCallsOk(last) /\ AllCallsOk(last')
        /\ ~\E t \in last.before :
               IsMainRoute(t, last.route, LinkByName(last.route.Device).Index))
       => (/\ last.status = "ok" /\ last.changed
           /\ last'.status = "ok" /\ ~last'.changed)]_vars

\* C3: in a ReplaceRoute for a route with a gateway, started on a table
\* that lacks the gateway's on-link route, every install of the main route
\* comes after an install of the on-link route in the adapter's call order.
C3_NexthopBeforeMain ==
    (/\ Replaced /\ DeviceResolves /\ HasGateway
     /\ ~\E t \in last.before : IsNexthopRoute(t, last.route.Nexthop, LinkOf)) =>
        \A i \in CallsAt("RouteReplace", "main") :
           \E j \in CallsAt("RouteReplace", "nexthop") :
              /\ j < i
              /\ IsNexthopRoute(KernelRoute(last.calls[j].route), last.route.Nexthop, LinkOf)

\* C3 witness: the on-link route was missing and the call installed both
C3_Witness ==
    /\ Replaced /\ HasGateway
    /\ ~\E t \in last.before : IsNexthopRoute(t, last.route.Nexthop, LinkOf)
    /\ CallsAt("RouteReplace", "main") # {}
    /\ \E t \in table : IsMainRoute(t, last.route, LinkOf)

\* C4: when the install of the gateway's on-link route fails, ReplaceRoute
\* returns an error wrapping the adapter's error, the failed install is the
\* last adapter call (no listing and no install for the main route), and
\* the table is as it was before the call.
C4_NexthopFailureStops ==
    (Replaced /\ \E i \in CallsAt("RouteReplace", "nexthop") : ~last.calls[i].ok) =>
        /\ last.status = "error"
        /\ last.err = <<"unable to add nexthop route", "unable to add L2 nexthop route",
                        "RouteReplace">>
        /\ ~last.calls[Len(last.calls)].ok
        /\ IsCall(last.calls[Len(last.calls)], "RouteReplace", "nexthop")
        /\ CallsAt("RouteList", "main") = {}
        /\ CallsAt("RouteReplace", "main") = {}
        /\ table = last.before

\* C4 witness: the on-link install failed with the main route not in the table
C4_Witness ==
    /\ Replaced
    /\ \E i \in CallsAt("RouteReplace", "nexthop") : ~last.calls[i].ok
    /\ ~\E t \in table : IsMainRoute(t, last.route, LinkOf)
    /\ table # {}

\* C5: when the device name does not resolve, ReplaceRoute and DeleteRoute
\* return the device lookup error, the failed resolution is their only
\* adapter call, and the table is as it was before the call.
C5_DeviceFailure ==
    ((Replaced \/ Deleted) /\ ~DeviceResolves) =>
        /\ last.status = "error"
        /\ last.err = <<"unable to lookup interface", "LinkByName">>
        /\ Len(last.calls) = 1
        /\ IsCall(last.calls[1], "LinkByName", "resolve") /\ ~last.calls[1].ok
        /\ table = last.before

\* C5 witness: ReplaceRoute of a route with a gateway on an unknown device,
\* with routes in the table
C5_Witness ==
    /\ Replaced /\ ~DeviceResolves /\ HasGateway /\ table # {}

\* C6: ReplaceRoute of a specification without gateway makes no adapter
\* call for an on-link route, lists the table for the main route, and ends
\* with success or an error, never abnormally.
C6_NoGatewaySkipsNexthop ==
    (Replaced /\ DeviceResolves /\ ~HasGateway) =>
        /\ CallsAt("RouteList", "nexthop") = {}
        /\ CallsAt("RouteReplace", "nexthop") = {}
        /\ CallsAt("RouteList", "main") # {}
        /\ last.status \in {"ok", "error"}

\* C7: when a listing fails, in the nexthop phase or the main phase,
\* ReplaceRoute returns an error and the failed listing is its last adapter
\* call: no install follows it.
C7_ListFailureIsFatal ==
    Replaced =>
        \A i \in DOMAIN last.calls :
           (last.calls[i].op = "RouteList" /\ ~last.calls[i].ok) =>
              /\ last.status = "error"
              /\ \A j \in DOMAIN last.calls : j > i => last.calls[j].op # "RouteReplace"

\* C8: a successful ReplaceRoute reports "changed" exactly when one of its
\* installs changed the table, and "unchanged" exactly when none did.
C8_ChangedIffMutated ==
    (Replaced /\ last.status = "ok") =>
        (last.changed <=>
            \E i \in DOMAIN last.calls : last.calls[i].op = "RouteReplace" /\ last.calls[i].ok)

\* the MTU policy of the reconciler: none for a specification without MTU,
\* the device MTU when the prefix contains the local address, the route
\* (tunnel) MTU otherwise
PolicyMTU(route) ==
    IF route.MTU = 0 THEN 0
    ELSE IF ~route.Prefix.nil /\ route.Local # NilIP
            /\ (route.Local.form = "v6") = (route.Prefix.IP.form = "v6")
            /\ route.Local.net = route.Prefix.IP.net
         THEN DeviceMTU
         ELSE RouteMTU

\* C11: every install request of the main route carries no MTU when the
\* specification has none, the device MTU when the specification has one
\* and its prefix contains the local address, and the route (tunnel) MTU
\* when the local address is outside the prefix or absent, for IPv4 and
\* IPv6; it does not carry the MTU of the specification.
C11_MTUSelection ==
    Replaced =>
        \A i \in CallsAt("RouteReplace", "main") :
           /\ last.calls[i].route.MTU = PolicyMTU(last.route)
           /\ last.route.MTU # 0 => last.calls[i].route.MTU \in {DeviceMTU, RouteMTU}
           /\ last.route.MTU \notin {0, DeviceMTU, RouteMTU} =>
                 last.calls[i].route.MTU # last.route.MTU

\* C11 witness: an IPv6 specification with an MTU and a local address inside
\* the prefix was installed with the device MTU
C11_Witness ==
    /\ Replaced /\ last.status = "ok"
    /\ last.route.Prefix = Prefix6 /\ last.route.MTU # 0
    /\ Contains(last.route.Prefix, last.route.Local)
    /\ \E i \in CallsAt("RouteReplace", "main") : last.calls[i].route.MTU = DeviceMTU
    /\ \E t \in table : IsMainRoute(t, last.route, LinkOf) /\ t.MTU = DeviceMTU

\* C12: the delete request of DeleteRoute carries the destination prefix of
\* the specification and the device index, no gateway, no source address
\* and no MTU, whatever the specification holds in these fields; its scope
\* is the scope of the specification for an IPv4 destination and unset for
\* an IPv6 destination.
C12_DeleteRequestFields ==
    (Deleted /\ DeviceResolves) =>
        \A i \in CallsAt("RouteDel", "delete") :
           LET rq == last.calls[i].route IN
           /\ rq.Dst = last.route.Prefix
           /\ rq.LinkIndex = LinkOf
           /\ rq.Gw = NilIP /\ rq.Src = NilIP /\ rq.MTU = 0
           /\ rq.Scope = (IF last.route.Prefix.IP.form = "v6" THEN 0 ELSE last.route.Scope)

\* C12 witness: an IPv6 route of a specification with a gateway and a scope
\* was deleted
C12_Witness ==
    /\ Deleted /\ last.status = "ok"
    /\ last.route.Prefix = Prefix6 /\ HasGateway /\ last.route.Scope # 0
    /\ CallsAt("RouteDel", "delete") # {}
    /\ table # last.before

\* C13: a DeleteRoute whose device resolves makes exactly one adapter call
\* after the resolution, the delete, whether or not the table holds the
\* route; it lists nothing and installs nothing; it returns the adapter's
\* error when the delete fails, as it does for an absent route, and success
\* otherwise; the table loses at most the one route the request selects,
\* and any on-link route of the gateway stays.
C13_DeleteUnconditional ==
    (Deleted /\ DeviceResolves) =>
        /\ Len(last.calls) = 2
        /\ IsCall(last.calls[1], "LinkByName", "resolve")
        /\ IsCall(last.calls[2], "RouteDel", "delete")
        /\ last.status = (IF last.calls[2].ok THEN "ok" ELSE "error")
        /\ ~last.calls[2].ok => last.err = <<"RouteDel">> /\ table = last.before
        /\ DelMatches(last.before, last.calls[2].route) = {} => ~last.calls[2].ok
        /\ table \subseteq last.before
        /\ Cardinality(last.before \ table) <= 1
        /\ last.before \ table \subseteq DelMatches(last.before, last.calls[2].route)
        /\ \A t \in last.before :
              (HasGateway /\ IsOnLinkRoute(t, last.route.Nexthop, LinkOf)) => t \in table

\* C13 witness: the delete of a route the table does not hold returned the
\* adapter's error, with the gateway's on-link route in the table
C13_Witness ==
    /\ Deleted /\ DeviceResolves /\ HasGateway
    /\ last.status = "error"
    /\ ~\E t \in last.before : IsMainRoute(t, last.route, LinkOf)
    /\ \E t \in table : IsOnLinkRoute(t, last.route.Nexthop, LinkOf)

\* C19: the on-link route of the nexthop phase has the host prefix of the
\* gateway as destination (32 of 32 bits for IPv4, 128 of 128 for IPv6), no
\* gateway, the device index of the route, scope link for an IPv4 gateway
\* and no scope for an IPv6 gateway: this is the route every nexthop install
\* requests, the listing is of that device and family, and when the listing
\* succeeds the install is made exactly when the table held no such route.
C19_NexthopRouteShape ==
    (Replaced /\ DeviceResolves /\ HasGateway) =>
        LET G == last.route.Nexthop
            v6 == G.form = "v6"
            bits == IF v6 THEN V6Bits ELSE V4Bits
        IN  /\ \A i \in CallsAt("RouteReplace", "nexthop") :
                  LET rq == last.calls[i].route IN
                  /\ ~rq.Dst.nil /\ rq.Dst.IP = G
                  /\ rq.Dst.ones = bits /\ rq.Dst.bits = bits
                  /\ rq.Gw = NilIP /\ rq.Src = NilIP /\ rq.MTU = 0
                  /\ rq.LinkIndex = LinkOf
                  /\ rq.Scope = (IF v6 THEN 0 ELSE SCOPE_LINK)
            /\ \A i \in CallsAt("RouteList", "nexthop") :
                  /\ last.calls[i].link = LinkOf
                  /\ last.calls[i].family = (IF v6 THEN FAMILY_V6 ELSE FAMILY_V4)
                  /\ last.calls[i].ok =>
                        ((CallsAt("RouteReplace", "nexthop") # {}) <=>
                            ~\E t \in last.before : IsNexthopRoute(t, G, LinkOf))

\* C19 witness: the on-link route of an IPv6 gateway was installed, with no
\* scope, into a table that held other routes
C19_Witness ==
    /\ Replaced /\ last.status = "ok" /\ HasGateway
    /\ last.route.Nexthop.form = "v6"
    /\ last.before # {}
    /\ \E i \in CallsAt("RouteReplace", "nexthop") : last.calls[i].ok
    /\ \E t \in table : IsNexthopRoute(t, last.route.Nexthop, LinkOf) /\ t \notin last.before

\* C20: when the table holds a route with the destination, gateway, device
\* index and scope of the specification, whatever its MTU and source
\* address, a ReplaceRoute whose adapter calls succeed makes no install call
\* for the main route and reports "unchanged", and the route is in the
\* table after the call with the MTU and source address it had.
C20_MTUSrcNotIdentity ==
    (/\ Replaced /\ DeviceResolves /\ HasGateway /\ AllCallsOk(last)
     /\ \E t \in last.before : IsMainRoute(t, last.route, LinkOf)) =>
        /\ CallsAt("RouteReplace", "main") = {}
        /\ last.status = "ok" /\ ~last.changed
        /\ \A t \in last.before : IsMainRoute(t, last.route, LinkOf) => t \in table

\* C20 witness: the table held the route with another MTU and another source
\* address than the specification asks for, and holds it after the call
C20_Witness ==
    /\ Replaced /\ DeviceResolves /\ HasGateway /\ AllCallsOk(last)
    /\ last.status = "ok"
    /\ \E t \in last.before :
          /\ IsMainRoute(t, last.route, LinkOf)
          /\ t.MTU # PolicyMTU(last.route) /\ t.Src # last.route.Local
          /\ t \in table

(***************************************************************************)
(* Claims about concurrent ReplaceRoute calls (SpecRace)                   *)
(***************************************************************************)
\* the positions in the shared call log of the calls of p in a phase
RaceCalls(p, op, phase) ==
    {i \in DOMAIN race.log : race.log[i].proc = p /\ IsCall(race.log[i].call, op, phase)}

RaceAllDone == \A p \in Procs : race.g[p].pc = "done"

RaceAllCallsOk == \A i \in DOMAIN race.log : race.log[i].call.ok

\* the specification has a gateway, its device resolves, and the table the
\* calls started on lacks the route
RaceCase ==
    /\ RaceAllDone /\ RaceAllCallsOk
    /\ race.route.Nexthop # NilIP
    /\ LinkByName(race.route.Device).ok
    /\ ~\E t \in race.before :
           IsMainRoute(t, race.route, LinkByName(race.route.Device).Index)

\* both calls listed the table for the main route before either installed it
RaceBothListFirst ==
    \A p \in Procs : \A i \in RaceCalls(p, "RouteList", "main") :
       \A q \in Procs : \A j \in RaceCalls(q, "RouteReplace", "main") : i < j

\* the caller serialized the calls: one made all its adapter calls before
\* the first adapter call of the other
RaceSerial ==
    \E p \in Procs : \A i, j \in DOMAIN race.log :
       (race.log[i].proc = p /\ race.log[j].proc # p) => i < j

\* C14: two ReplaceRoute calls of the same specification take no lock.  When
\* both list the table for the main route before either installs it, both
\* find the route absent, both call RouteReplace and both report "changed";
\* when one call runs after the other has returned, exactly one of them
\* installs the main route and reports "changed", the other makes no
\* install and reports "unchanged".
C14_RaceAndSerial ==
    RaceCase =>
        /\ RaceBothListFirst =>
              \A p \in Procs :
                 /\ RaceCalls(p, "RouteReplace", "main") # {}
                 /\ race.g[p].status = "ok" /\ race.g[p].changed
        /\ RaceSerial =>
              \E p \in Procs : \A q \in Procs \ {p} :
                 /\ RaceCalls(p, "RouteReplace", "main") # {}
                 /\ race.g[p].status = "ok" /\ race.g[p].changed
                 /\ RaceCalls(q, "RouteReplace", "main") = {}
                 /\ RaceCalls(q, "RouteReplace", "nexthop") = {}
                 /\ race.g[q].status = "ok" /\ ~race.g[q].changed

\* C14 witness: the interleaving in which both calls listed before either
\* installed, and both installed and reported "changed"
C14_Witness ==
    /\ RaceCase /\ RaceBothListFirst /\ ~RaceSerial
    /\ \A p \in Procs :
          /\ RaceCalls(p, "RouteReplace", "main") # {}
          /\ race.g[p].changed

(***************************************************************************)
(* Claims about the ordering of routes (SpecSort)                          *)
(***************************************************************************)
\* the routes of a of mask length n, in their order in a
OfMaskLen(a, n) == SelectSeq(a, LAMBDA r : MaskLen(r) = n)

\* the number of times r occurs in a
Occurrences(a, r) == Cardinality({i \in DOMAIN a : a[i] = r})

\* C15: Less(i, j) holds exactly when the mask length of route i is greater
\* than that of route j; it is irreflexive, asymmetric and transitive, and
\* two routes are incomparable exactly when their mask lengths are equal;
\* the sorted slice holds the routes of the input, in non-increasing mask
\* length, the routes of one mask length in their input order; mask lengths
\* [24, 8, 32, 24] become [32, 24, 24, 8].
C15_ByMaskOrdering ==
    LET a == srt.in
        b == srt.out
    IN  /\ \A i, j \in DOMAIN a :
              /\ Less(a, i, j) <=> MaskLen(a[i]) > MaskLen(a[j])
              /\ ~Less(a, i, i)
              /\ Less(a, i, j) => ~Less(a, j, i)
              /\ (~Less(a, i, j) /\ ~Less(a, j, i)) <=> MaskLen(a[i]) = MaskLen(a[j])
              /\ \A k \in DOMAIN a : (Less(a, i, j) /\ Less(a, j, k)) => Less(a, i, k)
        /\ srt.done =>
              /\ Len(b) = Len(a)
              /\ \A r \in SortRoutes : Occurrences(b, r) = Occurrences(a, r)
              /\ \A i \in DOMAIN b : i > 1 => MaskLen(b[i - 1]) >= MaskLen(b[i])
              /\ \A i \in DOMAIN a : OfMaskLen(b, MaskLen(a[i])) = OfMaskLen(a, MaskLen(a[i]))
              /\ [i \in DOMAIN a |-> MaskLen(a[i])] = <<24, 8, 32, 24>> =>
                    [i \in DOMAIN b |-> MaskLen(b[i])] = <<32, 24, 24, 8>>

\* C15 witness: mask lengths [24, 8, 32, 24] with two different routes of
\* mask length 24 were sorted, and the two are in their input order
C15_Witness ==
    /\ srt.done
    /\ [i \in DOMAIN srt.in |-> MaskLen(srt.in[i])] = <<24, 8, 32, 24>>
    /\ srt.in[1] # srt.in[4]
    /\ srt.out = <<srt.in[3], srt.in[1], srt.in[4], srt.in[2]>>

(***************************************************************************)
(* Claims about ComparableMap (SpecMap)                                    *)
(***************************************************************************)
\* map holds obj under uuid and, under every other key, what before holds
StoredOver(map, before, uuid, obj) ==
    /\ DOMAIN map = DOMAIN before \cup {uuid}
    /\ map[uuid] = obj
    /\ \A u \in DOMAIN before : u # uuid => map[u] = before[u]

\* C16: AddEqual(uuid, obj) on an unmapped uuid stores obj and returns
\* false; on a mapped uuid with an obj whose version is not newer than the
\* stored one's it leaves the map as it was and returns true; with a newer
\* version it stores obj and returns what DeepEquals says of the old and
\* the new data.
C16_AddEqual ==
    vm.last.op = "AddEqual" =>
        LET c == vm.last
            old == c.before[c.uuid]
        IN  IF c.uuid \notin DOMAIN c.before
            THEN StoredOver(vm.cm.Map, c.before, c.uuid, c.obj) /\ c.ret = FALSE
            ELSE IF c.obj.Version <= old.Version
            THEN vm.cm.Map = c.before /\ c.ret = TRUE
            ELSE /\ StoredOver(vm.cm.Map, c.before, c.uuid, c.obj)
                 /\ c.ret = (CASE vm.cm.DeepEquals = "true" -> TRUE
                               [] vm.cm.DeepEquals = "false" -> FALSE
                               [] OTHER -> old.Data = c.obj.Data)

\* C16 witness: an older object with other data, offered for a mapped uuid
\* of a map that compares the data, was not stored and true was returned
C16_Witness ==
    /\ vm.last.op = "AddEqual"
    /\ vm.cm.DeepEquals = "equal"
    /\ vm.last.uuid \in DOMAIN vm.last.before
    /\ vm.last.obj.Version < vm.last.before[vm.last.uuid].Version
    /\ vm.last.obj.Data # vm.last.before[vm.last.uuid].Data
    /\ vm.last.ret = TRUE
    /\ vm.cm.Map = vm.last.before
    /\ Cardinality(DOMAIN vm.cm.Map) = 2

(***************************************************************************)
(* Claims about SyncComparableMap (SpecSync)                               *)
(***************************************************************************)
\* the positions of the calls of fn among the callbacks a DoLocked made
CallbacksOf(g, fn) == {i \in DOMAIN g.calls : g.calls[i].fn = fn}

\* goroutine p called DoLocked and DoLocked has run its body
DoLockedRan(p) ==
    gs.g[p].call.name = "DoLocked" /\ gs.g[p].pc \in {"unlock", "done"}

\* C17: a DoLocked that returns has called iterate, when given, once for
\* every key of the map with the value stored under it, and all of that
\* before it called replace, when given, once; the map holds the same
\* objects after the iteration, whatever iterate assigned to its value; when
\* replace returns an error the cm field is the map it was before and
\* DoLocked returns the error; when replace returns no error the cm field
\* is the map replace returned; without replace the cm field is untouched.
C17_DoLocked ==
    \A p \in Procs : DoLockedRan(p) =>
        LET g == gs.g[p]
            its == CallbacksOf(g, "iterate")
            rps == CallbacksOf(g, "replace")
        IN  /\ IF g.call.iterate = "nil" THEN its = {}
               ELSE /\ Cardinality(its) = Cardinality(DOMAIN g.mapBefore)
                    /\ {g.calls[i].key : i \in its} = DOMAIN g.mapBefore
                    /\ \A i \in its : g.calls[i].value = g.mapBefore[g.calls[i].key]
            /\ \A i \in its : \A j \in rps : i < j
            /\ g.iterated = g.mapBefore
            /\ (gs.g[p].pc = "unlock" /\ g.cmBefore # 0 /\ g.call.replace # "addThenError") =>
                  gs.heap[g.cmBefore].Map = g.mapBefore
            /\ IF g.call.replace = "nil"
               THEN rps = {} /\ g.cmAfter = g.cmBefore /\ ~g.err
               ELSE /\ rps = {Len(g.calls)}
                    /\ g.calls[Len(g.calls)].old = g.cmBefore
                    /\ g.err = g.calls[Len(g.calls)].err
                    /\ g.cmAfter = (IF g.calls[Len(g.calls)].err THEN g.cmBefore
                                     ELSE g.calls[Len(g.calls)].new)
            /\ gs.g[p].pc = "unlock" => gs.sm.cm = g.cmAfter

\* C17 witness: on a map holding an object, iterate assigned to its value
\* and replace then returned another map together with an error
C17_Witness ==
    \E p \in Procs :
       /\ DoLockedRan(p) /\ gs.g[p].pc = "unlock"
       /\ gs.g[p].call.iterate = "write" /\ gs.g[p].call.replace = "errorOther"
       /\ DOMAIN gs.g[p].mapBefore # {}
       /\ gs.g[p].err
       /\ gs.sm.cm = gs.g[p].cmBefore
       /\ gs.heap[gs.sm.cm].Map = gs.g[p].mapBefore
       /\ \A u \in DOMAIN gs.g[p].mapBefore : gs.g[p].mapBefore[u].Version # IterateVersion

\* goroutine p is between its lock and its unlock
InLock(p) == gs.g[p].pc \in {"locked", "unlock"}

\* the calls of the goroutines run one after the other in the order given,
\* each from lock to unlock, on the map as it was built
RECURSIVE RunInOrder(_, _, _, _)
RunInOrder(order, i, heap, cm) ==
    IF i > Len(order) THEN [heap |-> heap, cm |-> cm, panic |-> FALSE, rets |-> <<>>]
    ELSE LET map == IF cm = 0 THEN <<>> ELSE heap[cm].Map
             r == SyncApply(gs.g[order[i]].call, heap, cm,
                            CHOOSE q \in KeyOrders(map) : TRUE)
         IN  IF r.panic THEN [heap |-> heap, cm |-> cm, panic |-> TRUE, rets |-> <<>>]
             ELSE LET rest == RunInOrder(order, i + 1, r.heap, r.cm)
                  IN  [rest EXCEPT !.rets = <<[p |-> order[i], obj |-> r.obj, ok |-> r.ok,
                                               err |-> r.err]>> \o @]

\* the final map and the return values are those of the calls run in order
SameAsInOrder(order) ==
    LET run == RunInOrder(order, 1, gs.heap0, 1) IN
    /\ ~run.panic
    /\ run.heap = gs.heap /\ run.cm = gs.sm.cm
    /\ \A i \in DOMAIN run.rets :
          LET g == gs.g[run.rets[i].p] IN
          g.obj = run.rets[i].obj /\ g.ok = run.rets[i].ok /\ g.err = run.rets[i].err

\* C18: on a SyncComparableMap returned by NewSyncComparableMap, the calls
\* of Add, AddEqual, Delete, Get and DoLocked made by concurrent goroutines
\* all complete: none ends in a panic and, when no goroutine can take a
\* step, all have returned; two goroutines are between lock and unlock at
\* the same time only when both call Get; and when all have returned, the
\* map and the return values are those of the calls in some sequential
\* order.
C18_ThreadSafe ==
    gs.ctor = "New" =>
        /\ \A p \in Procs : gs.g[p].pc # "panic"
        /\ ~(ENABLED NextSync) => \A p \in Procs : gs.g[p].pc = "done"
        /\ \A p, q \in Procs :
              (p # q /\ InLock(p) /\ InLock(q)) =>
                 (gs.g[p].call.name = "Get" /\ gs.g[q].call.name = "Get")
        /\ (\A p \in Procs : gs.g[p].pc = "done") =>
              \E order \in KeyOrders([p \in Procs |-> p]) : SameAsInOrder(order)

(***************************************************************************)
(* Claims about sequences of AddEqual calls (SpecAddEqual)                 *)
(***************************************************************************)
\* C21: from one state to the next of a map on which only AddEqual is
\* called, a mapped uuid stays mapped and the version stored under it does
\* not decrease, and a call whose object is not newer than the object
\* stored under its uuid leaves the map as it is.
C21_VersionMonotonic ==
    [][/\ \A u \in DOMAIN vm.cm.Map :
             /\ u \in DOMAIN vm'.cm.Map
             /\ vm'.cm.Map[u].Version >= vm.cm.Map[u].Version
        /\ (/\ vm'.last.uuid \in DOMAIN vm.cm.Map
            /\ vm'.last.obj.Version <= vm.cm.Map[vm'.last.uuid].Version)
              => vm'.cm.Map = vm.cm.Map]_vars

\* C21 witness: with both uuids mapped, an AddEqual raised the version
\* stored under one of them and the call after it, offering an object of
\* that same version and other data, left the map as it was
C21_Witness ==
    /\ vm.last.op = "AddEqual"
    /\ DOMAIN vm.cm.Map = UUIDs
    /\ vm.cm.Map = vm.last.before
    /\ vm.last.obj.Version = vm.cm.Map[vm.last.uuid].Version
    /\ vm.last.obj.Version > 1
    /\ vm.last.obj.Data # vm.cm.Map[vm.last.uuid].Data
    /\ \E u \in UUIDs : vm.cm.Map[u].Version < vm.last.obj.Version

====
